---- MODULE Spec2Model ----
(***************************************************************************)
(* Model of the ShareMatch chatbot backend:                                *)
(*   - the FastAPI orchestrator of app.py (startup_event, root,            *)
(*     health_check, chat, clear_conversation) with the module globals     *)
(*     vectorstore / retriever / llm,                                      *)
(*   - the seeding workflow of seed_to_supabase.py (main),                 *)
(*   - the cloud store helpers of chroma_cloud.py.                         *)
(* The three parts share no state in the source; each has its own          *)
(* specification (Spec, SpecSeed, SpecCloud) over the same variables.      *)
(***************************************************************************)
EXTENDS Integers, Sequences, FiniteSets, TLC

VARIABLES
    \* ---- app.py ----
    chroma_dir,      \* the directory CHROMA_DIR on disk: [exists, docs]
    vectorstore,     \* app.py:49 global
    retriever,       \* app.py:50 global
    llm,             \* app.py:51 global
    started,         \* "pending" | "ok" | "failed": the startup event
    ingest_calls,    \* number of load_and_split_documents() calls by startup
    req,             \* the last ChatRequest received
    resp,            \* the last HTTP response sent
    nreq,            \* number of requests handled
    retrieve_calls,  \* number of retriever.invoke calls
    generate_calls,  \* number of llm.invoke calls
    llm_in,          \* the prompt of the last llm.invoke call
    llm_out,         \* the content returned by the last llm.invoke call
    \* ---- seed_to_supabase.py ----
    seed_pc,         \* position of main(): "start" | "loop" | "done" | "aborted"
    chunks,          \* chunks returned by load_and_split_documents()
    idx,             \* number of loop iterations finished
    success_count,   \* seed_to_supabase.py:119
    table,           \* rows of chatbot_embeddings
    table0,          \* rows of chatbot_embeddings before the run
    clear_outcome,   \* outcome of the DELETE request
    outcomes,        \* per processed chunk: "ok" | "embed_fail" | "insert_fail"
    log,             \* external calls of the run, in order
    report,          \* the final "uploaded x/y" line
    \* ---- chroma_cloud.py ----
    api_key,         \* CHROMA_API_KEY is set
    coll,            \* the named collection in Chroma Cloud: [exists, ids]
    prev_op,         \* the operation before the last one
    last_op,         \* the last operation
    op_result,       \* what the last operation returned
    \* ---- app.py, requests in flight ----
    inflight         \* per request slot: position, request, response

appVars == <<chroma_dir, vectorstore, retriever, llm, started, ingest_calls,
             req, resp, nreq, retrieve_calls, generate_calls, llm_in, llm_out>>
seedVars == <<seed_pc, chunks, idx, success_count, table, table0,
              clear_outcome, outcomes, log, report>>
cloudVars == <<api_key, coll, prev_op, last_op, op_result>>
concVars == <<inflight>>
vars == <<appVars, seedVars, cloudVars, concVars>>

----------------------------------------------------------------------------
\* Bounds of the model.
MaxChunks == 2
MaxRequests == 2

\* retriever.py:4 search_kwargs={"k": 4}
K == 4

Min(a, b) == IF a < b THEN a ELSE b

\* Python's None, for string-valued and handle-valued variables.
NoneVal == "None"
NoneH == [kind |-> "None"]

\* bool(x) of an Optional[str]: None and "" are falsy.
TruthyStr(s) == s # NoneVal /\ s # ""

\* bool(x) of a handle object: only None is falsy.
TruthyH(h) == h # NoneH

----------------------------------------------------------------------------
\* app.py: the orchestrator.

\* ChatRequest.message values and ChatRequest.conversation_id values
\* (Optional[str], default None).
Messages == {"q1", "q2"}
ConversationIds == {NoneVal, "", "c1"}

\* f"conv_{os.urandom(8).hex()}": a token drawn by the operating system.
FreshTokens == {"conv_a", "conv_b"}

\* response.content of the hosted model: a string, or a content-block list.
Answers == {"a1", "a2"}
NonStrContent == "content_blocks"
Contents == Answers \cup {NonStrContent}

\* The chunk sequence <<1, ..., n>>; chunk i stands for its page_content.
ChunkSeq(n) == [i \in 1..n |-> i]

\* The documents argument of get_vectorstore: None (the default) or a list.
NoDocuments == [is_none |-> TRUE, items |-> <<>>]
Documents(items) == [is_none |-> FALSE, items |-> items]

\* bool(documents): None and the empty list are falsy.
TruthyList(d) == ~d.is_none /\ Len(d.items) > 0

\* os.path.exists(CHROMA_DIR)
DirExists(dir) == dir.exists

\* embeddings.get_vectorstore: Chroma.from_documents when documents is truthy,
\* Chroma(persist_directory=...) over whatever the directory holds otherwise.
get_vectorstore(documents, dir) ==
    IF TruthyList(documents)
    THEN [kind |-> "Chroma", mode |-> "built", docs |-> documents.items]
    ELSE [kind |-> "Chroma", mode |-> "loaded", docs |-> dir.docs]

\* The directory after get_vectorstore returned: both branches persist there.
persist_directory(documents, dir) ==
    IF TruthyList(documents)
    THEN [exists |-> TRUE, docs |-> documents.items]
    ELSE [exists |-> TRUE, docs |-> dir.docs]

\* retriever.get_retriever: similarity search with k = 4.
get_retriever(vs) == [kind |-> "retriever", vs |-> vs, k |-> K]

\* model.get_llm
get_llm == [kind |-> "ChatGroq"]

\* The results a similarity search may return: min(k, n) distinct stored
\* chunks, in the order the distances give.
Rankings(docs, k) ==
    LET n == Min(k, Len(docs))
        R == {docs[i] : i \in 1..Len(docs)}
    IN  {s \in [1..n -> R] : \A i, j \in 1..n : i # j => s[i] # s[j]}

\* "\n\n".join(d.page_content for d in docs)
JoinContext(docs) == docs

\* The f-string prompt: the template with the context and the verbatim message.
BuildPrompt(context, message) == [context |-> context, question |-> message]

\* The steps of startup_event at which an exception may be raised.
FailPoints == {"none", "ingest", "vectorstore", "retriever", "llm"}

\* Mutant of the gate: "and" in place of "or".
NotInitialized_And == ~TruthyH(retriever) /\ ~TruthyH(llm)

\* The readiness gate of chat: "if not retriever or not llm".
NotInitialized == ~TruthyH(retriever) \/ ~TruthyH(llm)

\* health_check's rag_initialized: "vectorstore is not None".
RagInitialized == vectorstore # NoneH

\* Mutant of the startup guard: the startup is run again after a failure.
StartupPending_Retry == started # "ok"

\* The startup event is delivered once per process.
StartupPending == started = "pending"

Response(kind, status, body) == [kind |-> kind, status |-> status, body |-> body]

\* HTTPException(status_code=503, detail="Chatbot not initialized")
UnavailableResponse == Response("chat", 503, [detail |-> <<"Chatbot not initialized">>])

\* Mutant of the error mapping: the cause is sent back as if it were an answer.
ErrorResponse_AsAnswer(cause) ==
    [kind |-> "chat", status |-> 200,
     body |-> [message |-> cause, conversation_id |-> "conv_a"]]

\* HTTPException(status_code=500, detail=f"Error processing your message: {str(e)}")
ErrorResponse(cause) ==
    Response("chat", 500, [detail |-> <<"Error processing your message: ", cause>>])

\* request.conversation_id or f"conv_{os.urandom(8).hex()}"
ConversationId(cid, fresh) == IF TruthyStr(cid) THEN cid ELSE fresh

\* ChatResponse(message=response.content, conversation_id=conversation_id)
ChatResponse(content, cid) ==
    Response("chat", 200, [message |-> content, conversation_id |-> cid])

InitApp ==
    /\ chroma_dir \in {[exists |-> FALSE, docs |-> <<>>]}
                      \cup {[exists |-> TRUE, docs |-> ChunkSeq(n)] : n \in 0..MaxChunks}
    /\ vectorstore = NoneH
    /\ retriever = NoneH
    /\ llm = NoneH
    /\ started = "pending"
    /\ ingest_calls = 0
    /\ req = [message |-> NoneVal, conversation_id |-> NoneVal]
    /\ resp = Response("none", 0, [detail |-> <<>>])
    /\ nreq = 0
    /\ retrieve_calls = 0
    /\ generate_calls = 0
    /\ llm_in = NoneVal
    /\ llm_out = NoneVal

\* startup_event: build or load the store, then the retriever, then the model.
\* An exception at any step leaves the globals assigned so far and ends the
\* startup; n is the number of chunks the ingestor yields.
startup_event ==
    /\ StartupPending
    /\ \E failAt \in FailPoints, n \in 0..MaxChunks :
         LET build == ~DirExists(chroma_dir)
             documents == IF build THEN Documents(ChunkSeq(n)) ELSE NoDocuments
             vs == get_vectorstore(documents, chroma_dir)
             vsDone == failAt \notin {"ingest", "vectorstore"}
             retDone == vsDone /\ failAt # "retriever"
             llmDone == retDone /\ failAt # "llm"
         IN  /\ failAt = "ingest" => build
             /\ ~build => n = 0
             /\ ingest_calls' = IF build THEN ingest_calls + 1 ELSE ingest_calls
             /\ vectorstore' = IF vsDone THEN vs ELSE vectorstore
             /\ chroma_dir' = IF vsDone THEN persist_directory(documents, chroma_dir)
                              ELSE chroma_dir
             /\ retriever' = IF retDone THEN get_retriever(vs) ELSE retriever
             /\ llm' = IF llmDone THEN get_llm ELSE llm
             /\ started' = IF llmDone THEN "ok" ELSE "failed"
    /\ UNCHANGED <<req, resp, nreq, retrieve_calls, generate_calls, llm_in, llm_out>>
    /\ UNCHANGED <<seedVars, cloudVars, concVars>>

\* GET /
root ==
    /\ nreq < MaxRequests
    /\ nreq' = nreq + 1
    /\ resp' = Response("root", 200, [status |-> "healthy", service |-> "ShareMatch AI Chatbot"])
    /\ UNCHANGED <<chroma_dir, vectorstore, retriever, llm, started, ingest_calls,
                   req, retrieve_calls, generate_calls, llm_in, llm_out>>
    /\ UNCHANGED <<seedVars, cloudVars, concVars>>

\* GET /health
health_check ==
    /\ nreq < MaxRequests
    /\ nreq' = nreq + 1
    /\ resp' = Response("health", 200, [status |-> "ok", rag_initialized |-> RagInitialized])
    /\ UNCHANGED <<chroma_dir, vectorstore, retriever, llm, started, ingest_calls,
                   req, retrieve_calls, generate_calls, llm_in, llm_out>>
    /\ UNCHANGED <<seedVars, cloudVars, concVars>>

\* POST /chat, rejected at the gate.
chat_unavailable ==
    /\ NotInitialized
    /\ resp' = UnavailableResponse
    /\ UNCHANGED <<retrieve_calls, generate_calls, llm_in, llm_out>>

\* POST /chat, retriever.invoke raises (on None it raises before any retrieval
\* is made).
chat_retrieve_fails ==
    /\ ~NotInitialized
    /\ resp' = ErrorResponse(IF TruthyH(retriever) THEN "RetrievalError"
                             ELSE "AttributeError")
    /\ retrieve_calls' = IF TruthyH(retriever) THEN retrieve_calls + 1
                         ELSE retrieve_calls
    /\ UNCHANGED <<generate_calls, llm_in, llm_out>>

\* POST /chat, retrieval succeeds and llm.invoke raises (on None it raises
\* before any generation is asked for).
chat_generate_fails(message) ==
    /\ ~NotInitialized
    /\ TruthyH(retriever)
    /\ retrieve_calls' = retrieve_calls + 1
    /\ \E docs \in Rankings(retriever.vs.docs, retriever.k),
          cause \in {"GenerationUnavailable", "GenerationTimeout", "AttributeError"} :
         /\ (cause = "AttributeError") <=> ~TruthyH(llm)
         /\ resp' = ErrorResponse(cause)
         /\ generate_calls' = IF TruthyH(llm) THEN generate_calls + 1
                              ELSE generate_calls
         /\ llm_in' = IF TruthyH(llm) THEN BuildPrompt(JoinContext(docs), message)
                      ELSE llm_in
         /\ llm_out' = IF TruthyH(llm) THEN NoneVal ELSE llm_out

\* POST /chat, retrieval and generation succeed; a content that is not a string
\* fails the validation of ChatResponse inside the try block.
chat_generated(message, cid) ==
    /\ ~NotInitialized
    /\ TruthyH(retriever)
    /\ TruthyH(llm)
    /\ retrieve_calls' = retrieve_calls + 1
    /\ generate_calls' = generate_calls + 1
    /\ \E docs \in Rankings(retriever.vs.docs, retriever.k), content \in Contents,
          fresh \in FreshTokens :
         /\ llm_in' = BuildPrompt(JoinContext(docs), message)
         /\ llm_out' = content
         /\ resp' = IF content \in Answers
                    THEN ChatResponse(content, ConversationId(cid, fresh))
                    ELSE ErrorResponse("ValidationError")

\* POST /chat
chat ==
    /\ nreq < MaxRequests
    /\ nreq' = nreq + 1
    /\ \E message \in Messages, cid \in ConversationIds :
         /\ req' = [message |-> message, conversation_id |-> cid]
         /\ \/ chat_unavailable
            \/ chat_retrieve_fails
            \/ chat_generate_fails(message)
            \/ chat_generated(message, cid)
    /\ UNCHANGED <<chroma_dir, vectorstore, retriever, llm, started, ingest_calls>>
    /\ UNCHANGED <<seedVars, cloudVars, concVars>>

\* Mutant of clear_conversation: it drops the shared handles.
clear_conversation_Resets ==
    /\ nreq < MaxRequests
    /\ nreq' = nreq + 1
    /\ resp' = [kind |-> "clear", status |-> 200, body |-> [status |-> "cleared"]]
    /\ vectorstore' = NoneH
    /\ retriever' = NoneH
    /\ llm' = NoneH
    /\ UNCHANGED <<chroma_dir, started, ingest_calls,
                   req, retrieve_calls, generate_calls, llm_in, llm_out>>
    /\ UNCHANGED <<seedVars, cloudVars, concVars>>

\* POST /clear
clear_conversation ==
    /\ nreq < MaxRequests
    /\ nreq' = nreq + 1
    /\ resp' = Response("clear", 200, [status |-> "cleared"])
    /\ UNCHANGED <<chroma_dir, vectorstore, retriever, llm, started, ingest_calls,
                   req, retrieve_calls, generate_calls, llm_in, llm_out>>
    /\ UNCHANGED <<seedVars, cloudVars, concVars>>

NextApp ==
    \/ startup_event
    \/ root
    \/ health_check
    \/ chat
    \/ clear_conversation


----------------------------------------------------------------------------
\* seed_to_supabase.py: the seeding workflow.

\* Bounds of the seeding model.
MaxSeedChunks == 3
MaxOldRows == 2

\* What one loop iteration can meet: generate_embedding raises, or
\* insert_to_supabase raises, or neither does.
ItemOutcomes == {"ok", "embed_fail", "insert_fail"}

\* What the DELETE request of clear_existing_embeddings can meet: a 200/204
\* answer, another status, or an exception of the HTTP client.
ClearOutcomes == {"ok", "rejected", "raised"}

\* Rows left by earlier runs; the table's auto id starts at 1.
OldRows(m) == {[id |-> j, run |-> "earlier", chunk_index |-> j - 1] : j \in 1..m}

\* Mutant of the delete: the filter matches no row.
DeleteRows_None(rows, outcome) == rows

\* DELETE /rest/v1/chatbot_embeddings?id=gt.0: when the store accepts the
\* request the rows with id > 0 go, otherwise the table is as it was.
DeleteRows(rows, outcome) ==
    IF outcome = "ok" THEN {r \in rows : ~(r.id > 0)} ELSE rows

\* The row insert_to_supabase posts for chunk i (enumerate index i - 1).
NewRow(i, nextId) == [id |-> nextId, run |-> "this", chunk_index |-> i - 1]

\* Mutant of the count: incremented before the insert.
CountSuccess_Early(count, outcome) ==
    IF outcome # "embed_fail" THEN count + 1 ELSE count

\* "success_count += 1" is reached only when neither call raised.
CountSuccess(count, outcome) == IF outcome = "ok" THEN count + 1 ELSE count

\* The external calls of one iteration on chunk i, in order: the sleep follows
\* the insert inside the try block, so a raised exception skips it.
IterationCalls(i, outcome) ==
    IF outcome = "embed_fail" THEN <<[op |-> "embed", chunk |-> i]>>
    ELSE IF outcome = "insert_fail"
         THEN <<[op |-> "embed", chunk |-> i], [op |-> "insert", chunk |-> i]>>
         ELSE <<[op |-> "embed", chunk |-> i], [op |-> "insert", chunk |-> i],
                [op |-> "sleep", chunk |-> i]>>

\* The loop goes on to the next chunk whatever the iteration met ("continue").
AfterIteration(outcome) == "loop"

InitSeed ==
    /\ seed_pc = "start"
    /\ chunks = <<>>
    /\ idx = 0
    /\ success_count = 0
    /\ table0 \in {OldRows(m) : m \in 0..MaxOldRows}
    /\ table = table0
    /\ clear_outcome = NoneVal
    /\ outcomes = <<>>
    /\ log = <<>>
    /\ report = <<>>

\* main, lines 104-111: load_and_split_documents(); an exception ends main.
main_load ==
    /\ seed_pc = "start"
    /\ \E loaded \in BOOLEAN, n \in 0..MaxSeedChunks :
         /\ ~loaded => n = 0
         /\ chunks' = ChunkSeq(n)
         /\ seed_pc' = IF loaded THEN "clear" ELSE "aborted"
    /\ UNCHANGED <<idx, success_count, table, table0, clear_outcome, outcomes, log, report>>
    /\ UNCHANGED <<appVars, cloudVars, concVars>>

\* main, lines 113-119: clear_existing_embeddings(), then success_count = 0.
\* A status other than 200/204 is only warned about; an exception ends main.
main_clear ==
    /\ seed_pc = "clear"
    /\ \E outcome \in ClearOutcomes :
         /\ clear_outcome' = outcome
         /\ table' = DeleteRows(table, outcome)
         /\ seed_pc' = IF outcome = "raised" THEN "aborted" ELSE "loop"
    /\ log' = Append(log, [op |-> "delete", chunk |-> 0])
    /\ success_count' = 0
    /\ UNCHANGED <<chunks, idx, table0, outcomes, report>>
    /\ UNCHANGED <<appVars, cloudVars, concVars>>

\* main, lines 121-147: one iteration of the loop, on chunk idx + 1.
main_iteration ==
    /\ seed_pc = "loop"
    /\ idx < Len(chunks)
    /\ \E outcome \in ItemOutcomes :
         LET i == idx + 1
             nextId == Cardinality(table0) + success_count + 1
         IN  /\ outcomes' = Append(outcomes, outcome)
             /\ log' = log \o IterationCalls(i, outcome)
             /\ table' = IF outcome = "ok" THEN table \cup {NewRow(i, nextId)} ELSE table
             /\ success_count' = CountSuccess(success_count, outcome)
             /\ seed_pc' = AfterIteration(outcome)
             /\ idx' = i
    /\ UNCHANGED <<chunks, table0, clear_outcome, report>>
    /\ UNCHANGED <<appVars, cloudVars, concVars>>

\* main, line 149: the final report, once the loop has run out of chunks.
main_report ==
    /\ seed_pc = "loop"
    /\ idx = Len(chunks)
    /\ report' = <<success_count, Len(chunks)>>
    /\ seed_pc' = "done"
    /\ UNCHANGED <<chunks, idx, success_count, table, table0, clear_outcome, outcomes, log>>
    /\ UNCHANGED <<appVars, cloudVars, concVars>>

NextSeed ==
    \/ main_load
    \/ main_clear
    \/ main_iteration
    \/ main_report

----------------------------------------------------------------------------
\* chroma_cloud.py: the cloud-managed store.

\* Bound of the cloud model: documents per add_documents call.
MaxDocs == 2

\* The named collection of the remote service: absent, or holding entries by id.
Absent == [exists |-> FALSE, ids |-> {}]
Holding(ids) == [exists |-> TRUE, ids |-> ids]

\* What a call to the remote service can meet.
CallOutcomes == {"ok", "error"}

\* ids = [f"doc_{i}" for i in range(len(documents))]: the id doc_i is i.
DefaultIds(n) == 0..(n - 1)

\* client.get_or_create_collection: the existing collection, entries and all,
\* or a new empty one.
GetOrCreate(c) == IF c.exists THEN c ELSE Holding({})

\* client.delete_collection: removes a collection that exists; it raises when
\* there is none, and when the service fails the collection is as it was.
DeleteCollection(c, outcome) == IF outcome = "ok" /\ c.exists THEN Absent ELSE c

Result(raised, value) == [raised |-> raised, value |-> value]

InitCloud ==
    /\ api_key \in BOOLEAN
    /\ coll \in {Absent} \cup {Holding(DefaultIds(n)) : n \in 0..MaxDocs}
    /\ prev_op = NoneVal
    /\ last_op = NoneVal
    /\ op_result = Result(FALSE, 0)

\* Every operation becomes the last one.
Record(op, result) ==
    /\ prev_op' = last_op
    /\ last_op' = op
    /\ op_result' = result
    /\ UNCHANGED api_key

\* add_documents with the default ids; get_chroma_cloud_client raises without
\* an API key, and an exception of either service call is not caught.
add_documents ==
    /\ \E n \in 1..MaxDocs, create \in CallOutcomes, add \in CallOutcomes :
         IF ~api_key \/ create = "error"
         THEN /\ coll' = coll
              /\ Record("add_documents", Result(TRUE, 0))
         ELSE IF add = "error"
         THEN /\ coll' = GetOrCreate(coll)
              /\ Record("add_documents", Result(TRUE, 0))
         ELSE /\ coll' = Holding(GetOrCreate(coll).ids \cup DefaultIds(n))
              /\ Record("add_documents", Result(FALSE, n))
    /\ UNCHANGED <<appVars, seedVars, concVars>>

\* query_similar's default n_results.
NResults == 4

\* query_similar with the default n_results: at most that many of the entries.
query_similar ==
    /\ \E create \in CallOutcomes, query \in CallOutcomes :
         IF ~api_key \/ create = "error"
         THEN /\ coll' = coll
              /\ Record("query_similar", Result(TRUE, 0))
         ELSE /\ coll' = GetOrCreate(coll)
              /\ Record("query_similar",
                        IF query = "error" THEN Result(TRUE, 0)
                        ELSE Result(FALSE, Min(NResults, Cardinality(GetOrCreate(coll).ids))))
    /\ UNCHANGED <<appVars, seedVars, concVars>>

\* clear_collection: delete (any exception is swallowed), then
\* get_or_create_collection on whatever the delete left.
clear_collection ==
    /\ \E delete \in CallOutcomes, create \in CallOutcomes :
         IF ~api_key
         THEN /\ coll' = coll
              /\ Record("clear_collection", Result(TRUE, 0))
         ELSE LET left == DeleteCollection(coll, delete)
              IN  IF create = "error"
                  THEN /\ coll' = left
                       /\ Record("clear_collection", Result(TRUE, 0))
                  ELSE /\ coll' = GetOrCreate(left)
                       /\ Record("clear_collection",
                                 Result(FALSE, Cardinality(GetOrCreate(left).ids)))
    /\ UNCHANGED <<appVars, seedVars, concVars>>

\* get_collection_count: collection.count(), or 0 on any exception.
get_collection_count ==
    /\ \E create \in CallOutcomes, count \in CallOutcomes :
         IF ~api_key \/ create = "error"
         THEN /\ coll' = coll
              /\ Record("get_collection_count", Result(FALSE, 0))
         ELSE /\ coll' = GetOrCreate(coll)
              /\ Record("get_collection_count",
                        IF count = "error" THEN Result(FALSE, 0)
                        ELSE Result(FALSE, Cardinality(GetOrCreate(coll).ids)))
    /\ UNCHANGED <<appVars, seedVars, concVars>>

NextCloud ==
    \/ add_documents
    \/ query_similar
    \/ clear_collection
    \/ get_collection_count

----------------------------------------------------------------------------
\* app.py: requests in flight together.  The handlers hold no lock and share
\* the three globals; here a request may be overtaken by another one at each
\* of its external calls (retriever.invoke, llm.invoke), which covers every
\* order in which a server can run the handlers.

\* Bound: the number of requests in flight together.
MaxInflight == 2
Slots == 1..MaxInflight

NoResponse == [kind |-> "none", status |-> 0, body |-> [detail |-> <<>>]]

\* A slot: where its handler stands, the request, and the response once sent.
\* The handler's locals docs, context and prompt only feed llm.invoke, whose
\* answer is the hosted model's choice, so the slot does not keep them.
Slot(pc, kind, message, cid, response) ==
    [pc |-> pc, kind |-> kind, message |-> message, cid |-> cid,
     response |-> response]
Free == Slot("free", "none", NoneVal, NoneVal, NoResponse)
Done(kind, response) == Slot("done", kind, NoneVal, NoneVal, response)

\* The requests the three endpoints accept.
Requests ==
    {[kind |-> "health", message |-> NoneVal, cid |-> NoneVal],
     [kind |-> "clear", message |-> NoneVal, cid |-> NoneVal]}
    \cup {[kind |-> "chat", message |-> m, cid |-> c] :
            m \in Messages, c \in ConversationIds}

IdleConc == inflight = [s \in Slots |-> Free]

\* The server accepts requests once the startup event has been handled.
conc_accept(s) ==
    /\ started # "pending"
    /\ inflight[s].pc = "free"
    /\ \E r \in Requests :
         inflight' = [inflight EXCEPT ![s] =
                        Slot("accepted", r.kind, r.message, r.cid, NoResponse)]
    /\ UNCHANGED <<appVars, seedVars, cloudVars>>

\* health_check, for the request in slot s.
conc_health(s) ==
    /\ inflight[s].pc = "accepted"
    /\ inflight[s].kind = "health"
    /\ inflight' = [inflight EXCEPT ![s] =
                      Done("health", Response("health", 200,
                             [status |-> "ok", rag_initialized |-> RagInitialized]))]
    /\ UNCHANGED <<appVars, seedVars, cloudVars>>

\* clear_conversation, for the request in slot s.
conc_clear(s) ==
    /\ inflight[s].pc = "accepted"
    /\ inflight[s].kind = "clear"
    /\ inflight' = [inflight EXCEPT ![s] =
                      Done("clear", Response("clear", 200, [status |-> "cleared"]))]
    /\ UNCHANGED <<appVars, seedVars, cloudVars>>

\* chat, lines 103-106: the gate.
conc_chat_gate(s) ==
    /\ inflight[s].pc = "accepted"
    /\ inflight[s].kind = "chat"
    /\ inflight' = [inflight EXCEPT ![s] =
                      IF NotInitialized THEN Done("chat", UnavailableResponse)
                      ELSE [@ EXCEPT !.pc = "retrieving"]]
    /\ UNCHANGED <<appVars, seedVars, cloudVars>>

\* chat, lines 108-111: retriever.invoke returns ranked chunks or raises.
conc_chat_retrieve(s) ==
    /\ inflight[s].pc = "retrieving"
    /\ \E raised \in BOOLEAN :
         IF raised \/ ~TruthyH(retriever)
         THEN inflight' = [inflight EXCEPT ![s] =
                Done("chat", ErrorResponse(IF TruthyH(retriever) THEN "RetrievalError"
                                           ELSE "AttributeError"))]
         ELSE \E docs \in Rankings(retriever.vs.docs, retriever.k) :
                inflight' = [inflight EXCEPT ![s] =
                               [@ EXCEPT !.pc = "generating"]]
    /\ UNCHANGED <<appVars, seedVars, cloudVars>>

\* What chat answers once llm.invoke returned or raised: lines 126-138.
ChatOutcomes(cid) ==
    {ErrorResponse(cause) :
       cause \in IF TruthyH(llm)
                 THEN {"GenerationUnavailable", "GenerationTimeout", "ValidationError"}
                 ELSE {"AttributeError"}}
    \cup {ChatResponse(content, ConversationId(cid, fresh)) :
            content \in IF TruthyH(llm) THEN Answers ELSE {},
            fresh \in FreshTokens}

\* Mutant of chat's last steps: a failed generation drops the model handle
\* (chat declares "global retriever, llm").
conc_chat_generate_Resets(s) ==
    /\ inflight[s].pc = "generating"
    /\ \E response \in ChatOutcomes(inflight[s].cid) :
         /\ inflight' = [inflight EXCEPT ![s] = Done("chat", response)]
         /\ llm' = IF response.status = 500 THEN NoneH ELSE llm
    /\ UNCHANGED <<chroma_dir, vectorstore, retriever, started, ingest_calls,
                   req, resp, nreq, retrieve_calls, generate_calls, llm_in, llm_out>>
    /\ UNCHANGED <<seedVars, cloudVars>>

\* chat, lines 113-138: the prompt, llm.invoke, and the response or the 500.
conc_chat_generate(s) ==
    /\ inflight[s].pc = "generating"
    /\ \E response \in ChatOutcomes(inflight[s].cid) :
         inflight' = [inflight EXCEPT ![s] = Done("chat", response)]
    /\ UNCHANGED <<appVars, seedVars, cloudVars>>

NextConc ==
    \/ startup_event
    \/ \E s \in Slots : conc_accept(s)
    \/ \E s \in Slots : conc_health(s)
    \/ \E s \in Slots : conc_clear(s)
    \/ \E s \in Slots : conc_chat_gate(s)
    \/ \E s \in Slots : conc_chat_retrieve(s)
    \/ \E s \in Slots : conc_chat_generate(s)

----------------------------------------------------------------------------
\* The orchestrator alone; the other two parts stay idle.
IdleSeed ==
    /\ seed_pc = "idle"
    /\ chunks = <<>>
    /\ idx = 0
    /\ success_count = 0
    /\ table = {}
    /\ table0 = {}
    /\ clear_outcome = NoneVal
    /\ outcomes = <<>>
    /\ log = <<>>
    /\ report = <<>>

IdleCloud ==
    /\ api_key = FALSE
    /\ coll = [exists |-> FALSE, ids |-> {}]
    /\ prev_op = NoneVal
    /\ last_op = NoneVal
    /\ op_result = [raised |-> FALSE, value |-> 0]

IdleApp ==
    /\ chroma_dir = [exists |-> FALSE, docs |-> <<>>]
    /\ vectorstore = NoneH
    /\ retriever = NoneH
    /\ llm = NoneH
    /\ started = "pending"
    /\ ingest_calls = 0
    /\ req = [message |-> NoneVal, conversation_id |-> NoneVal]
    /\ resp = Response("none", 0, [detail |-> <<>>])
    /\ nreq = 0
    /\ retrieve_calls = 0
    /\ generate_calls = 0
    /\ llm_in = NoneVal
    /\ llm_out = NoneVal

Init == InitApp /\ IdleSeed /\ IdleCloud /\ IdleConc
Next == NextApp
Spec == Init /\ [][Next]_vars

\* The cloud store alone.
CloudInit == IdleApp /\ IdleSeed /\ InitCloud /\ IdleConc
SpecCloud == CloudInit /\ [][NextCloud]_vars

\* The seeding workflow alone.
SeedInit == IdleApp /\ InitSeed /\ IdleCloud /\ IdleConc
SpecSeed == SeedInit /\ [][NextSeed]_vars

\* The orchestrator with requests in flight together.
ConcInit == InitApp /\ IdleSeed /\ IdleCloud /\ IdleConc
SpecConc == ConcInit /\ [][NextConc]_vars

----------------------------------------------------------------------------
\* Properties of the orchestrator (under Spec).

\* State Ready of the orchestrator: both handles the gate reads are set.
OrchestratorReady == retriever # NoneH /\ llm # NoneH

\* A step that handles one request of the given kind.
RequestStep(kind) == nreq' = nreq + 1 /\ resp'.kind = kind

ErrorCauses ==
    {"RetrievalError", "GenerationUnavailable", "GenerationTimeout",
     "ValidationError", "AttributeError"}

\* C1: a POST /chat handled while the orchestrator is not Ready is answered
\* 503, and neither retriever.invoke nor llm.invoke is called for it.
C1_NotReadyGives503 ==
    [][(RequestStep("chat") /\ ~OrchestratorReady)
         => (/\ resp'.status = 503
             /\ UNCHANGED <<retrieve_calls, generate_calls>>)]_vars

\* Witness of C1: after a startup that failed at the generation model (the
\* retriever is set), a chat request was answered 503.
C1_Witness ==
    /\ started = "failed"
    /\ retriever # NoneH
    /\ resp.kind = "chat"
    /\ resp.status = 503

\* C2: in state Ready a chat request ends either in 200 with the whole content
\* the model generated for it, or in 500 with the detail "Error processing
\* your message: <cause>"; it is 200 exactly when this request's generation
\* returned an answer, so every failure of steps 2-5 gives the 500.
C2_AnswerOrError ==
    [][(RequestStep("chat") /\ OrchestratorReady)
         => /\ resp'.status \in {200, 500}
            /\ resp'.status = 200 <=>
                 (/\ retrieve_calls' = retrieve_calls + 1
                  /\ generate_calls' = generate_calls + 1
                  /\ llm_out' \in Answers)
            /\ resp'.status = 200 => resp'.body.message = llm_out'
            /\ resp'.status = 500 =>
                 \E cause \in ErrorCauses :
                   resp'.body = [detail |-> <<"Error processing your message: ", cause>>]]_vars

\* Witness of C2: Ready, and a chat request whose generation timed out was
\* answered 500.
C2_Witness ==
    /\ OrchestratorReady
    /\ resp.kind = "chat"
    /\ resp.status = 500
    /\ resp.body.detail = <<"Error processing your message: ", "GenerationTimeout">>
    /\ generate_calls > 0

\* C3 (as claimed): a successful chat response echoes the request's
\* conversation_id whenever the request carries one, the empty string
\* included, and carries a fresh token only when the request carries none.
C3_EchoWheneverCarried ==
    (resp.kind = "chat" /\ resp.status = 200)
      => IF req.conversation_id # NoneVal
         THEN resp.body.conversation_id = req.conversation_id
         ELSE resp.body.conversation_id \in FreshTokens

\* C4 (as claimed): GET /health reports rag_initialized = true exactly when
\* the orchestrator is Ready, that is when a chat request would pass the gate.
C4_HealthIffReady ==
    [][RequestStep("health")
         => (resp'.body.rag_initialized <=> OrchestratorReady)]_vars

\* C5: the startup is attempted once and Ready is one-directional: a failed
\* startup stays failed and not Ready, every later chat request is answered
\* 503, and once Ready no request takes the orchestrator out of Ready.
C5_OneWay ==
    [][/\ OrchestratorReady => OrchestratorReady'
       /\ started' = "failed" => ~OrchestratorReady'
       /\ started = "failed" =>
            /\ started' = "failed"
            /\ RequestStep("chat") => resp'.status = 503
       /\ started = "ok" => started' = "ok"]_vars

\* Witness of C5: the startup failed after the vector store was set, and a
\* chat request handled afterwards (the second request at least) got 503.
C5_Witness ==
    /\ started = "failed"
    /\ vectorstore # NoneH
    /\ resp.kind = "chat"
    /\ resp.status = 503
    /\ nreq >= 2

\* C8: POST /clear can be handled in every state, answers 200
\* {status: "cleared"}, and leaves the store, the handles and the readiness
\* state as they were.
C8_ClearIsNoOp ==
    /\ [](nreq < MaxRequests => ENABLED clear_conversation)
    /\ [][RequestStep("clear")
            => /\ resp' = [kind |-> "clear", status |-> 200,
                           body |-> [status |-> "cleared"]]
               /\ UNCHANGED <<chroma_dir, vectorstore, retriever, llm, started>>]_vars

\* Witness of C8: Ready, after a chat request reached the model, a clear
\* request was answered.
C8_Witness ==
    /\ OrchestratorReady
    /\ generate_calls > 0
    /\ resp.kind = "clear"

\* The step in which the startup event is handled.
StartupStep == started = "pending" /\ started' # "pending"

\* C11 (as claimed): the build-vs-load choice is made once, in the startup
\* step, before any query is served: when the directory does not exist the
\* ingestor is invoked and the store that results is built from its chunks,
\* an empty chunk sequence included; when the directory exists the store is
\* loaded from it and the ingestor is not invoked.
C11_BuildWhenDirAbsent ==
    /\ [](retrieve_calls > 0 => started = "ok")
    /\ [][ingest_calls' # ingest_calls => StartupStep]_vars
    /\ [][StartupStep =>
            /\ ~chroma_dir.exists =>
                 /\ ingest_calls' = ingest_calls + 1
                 /\ vectorstore' # NoneH =>
                      /\ vectorstore'.mode = "built"
                      /\ vectorstore'.docs = chroma_dir'.docs
            /\ chroma_dir.exists =>
                 /\ ingest_calls' = ingest_calls
                 /\ vectorstore' # NoneH =>
                      /\ vectorstore'.mode = "loaded"
                      /\ vectorstore'.docs = chroma_dir.docs]_vars

----------------------------------------------------------------------------
\* Properties of the orchestrator with requests in flight (under SpecConc).

\* The responses a request may get, read off the request (its kind and its
\* conversation_id) and the shared handles alone.
OwnOutcomes(r) ==
    IF r.kind = "health"
    THEN {[kind |-> "health", status |-> 200,
           body |-> [status |-> "ok", rag_initialized |-> vectorstore # NoneH]]}
    ELSE IF r.kind = "clear"
    THEN {[kind |-> "clear", status |-> 200, body |-> [status |-> "cleared"]]}
    ELSE {[kind |-> "chat", status |-> 503,
           body |-> [detail |-> <<"Chatbot not initialized">>]]}
         \cup {[kind |-> "chat", status |-> 500,
                body |-> [detail |-> <<"Error processing your message: ", cause>>]] :
                 cause \in ErrorCauses}
         \cup {[kind |-> "chat", status |-> 200,
                body |-> [message |-> a, conversation_id |-> c]] :
                 a \in Answers,
                 c \in IF r.cid \notin {NoneVal, ""} THEN {r.cid} ELSE FreshTokens}

\* C12: once the startup has finished, no step of any request, in any
\* interleaving of the requests in flight and whether the request succeeds or
\* fails, changes the store, the three shared handles or the readiness state;
\* a step touches one request only, and the response a request gets is one its
\* own request and the shared handles allow.
C12_SharedHandlesReadOnly ==
    [][started # "pending" =>
         /\ UNCHANGED <<chroma_dir, vectorstore, retriever, llm, started>>
         /\ \A s \in Slots :
              inflight'[s] # inflight[s] =>
                /\ \A t \in Slots \ {s} : inflight'[t] = inflight[t]
                /\ inflight'[s].pc = "done" =>
                     inflight'[s].response \in OwnOutcomes(inflight[s])]_vars

\* Witness of C12: Ready, a chat request has failed with 500 while another
\* chat request is past its retrieval and waits for the model.
C12_Witness ==
    /\ OrchestratorReady
    /\ \E s, t \in Slots :
         /\ inflight[s].pc = "done"
         /\ inflight[s].response.kind = "chat"
         /\ inflight[s].response.status = 500
         /\ inflight[t].pc = "generating"

----------------------------------------------------------------------------
\* Properties of the seeding workflow (under SpecSeed).

\* The chunks of the run processed so far whose two calls both succeeded.
Succeeded == {i \in 1..Len(outcomes) : outcomes[i] = "ok"}

\* The embedding calls of the run, in order.
EmbedCalls == SelectSeq(log, LAMBDA e : e.op = "embed")

\* C6: whatever the per-chunk failures, the loop handles every chunk once, in
\* order, and never ends main; success_count is the number of chunks whose
\* embedding and insert both succeeded, exactly those chunks have a row of
\* this run, and the report is success_count / N.
C6_CountsSuccesses ==
    /\ seed_pc = "aborted" => idx = 0
    /\ idx = Len(outcomes)
    /\ idx <= Len(chunks)
    /\ EmbedCalls = [i \in 1..idx |-> [op |-> "embed", chunk |-> chunks[i]]]
    /\ seed_pc \in {"loop", "done"} =>
         /\ success_count = Cardinality(Succeeded)
         /\ {r.chunk_index : r \in {x \in table : x.run = "this"}}
              = {i - 1 : i \in Succeeded}
    /\ seed_pc = "done" =>
         /\ idx = Len(chunks)
         /\ report = <<Cardinality(Succeeded), Len(chunks)>>

\* Witness of C6: a finished run of three chunks or more in which only the
\* second chunk's embedding call failed.
C6_Witness ==
    /\ seed_pc = "done"
    /\ Len(chunks) >= 3
    /\ outcomes[2] = "embed_fail"
    /\ report = <<Len(chunks) - 1, Len(chunks)>>
    /\ Cardinality(table) = Len(chunks) - 1

C10_SleepBetweenEmbeds ==
    \A a, b \in 1..Len(log) :
      (a < b /\ log[a].op = "embed" /\ log[b].op = "embed")
        => \E c \in (a + 1)..(b - 1) : log[c].op = "sleep"

----------------------------------------------------------------------------
\* Properties of the cloud store (under SpecCloud).

\* C7 (as claimed): clear_collection followed at once by get_collection_count
\* yields 0, whatever the collection was and whatever the delete step met.
C7_ClearThenCountIsZero ==
    (prev_op = "clear_collection" /\ last_op = "get_collection_count")
      => op_result.value = 0

====
